---------------------------- MODULE Spec2Model ----------------------------
(***************************************************************************)
(* A model of scripts/apitypings/main.go: the generator that turns the     *)
(* type declarations of one Go package into TypeScript declarations.       *)
(*                                                                         *)
(* Text is modelled as a sequence of string fragments (the concatenation   *)
(* of the fragments is the Go string).  Strings that the program orders    *)
(* (sort.Strings) are given their bytes by Bytes, and are compared as Go   *)
(* compares strings: byte by byte.                                         *)
(***************************************************************************)
EXTENDS Integers, Sequences, FiniteSets, TLC

VARIABLES
    pkgName,      \* g.pkg.Types.Name(): the name of the scanned package
    scope,        \* g.pkg.Types.Scope(): the set of declared objects
    comments,     \* g.pkg.Syntax[*].Comments[*].List: the comment lines
    pc,           \* the position of the run
    ci,           \* generateAll: the number of comment lines scanned
    ignoredTypes, \* generateAll: the ignore set
    visited,      \* generateAll: the names of the objects already visited
    structs,      \* generateAll: name -> code block
    generics,     \* generateAll: name -> code block
    enums,        \* generateAll: name -> the enum base object
    enumConsts,   \* generateAll: name -> the constants, in visiting order
    result,       \* what generateAll returned: (*TypescriptTypes, error)
    doc,          \* what TypescriptTypes.String() returned
    st,           \* buildStruct: the struct being rendered (obj and fields)
    fi,           \* buildStruct: the number of fields iterated
    state,        \* buildStruct: structTemplateState and the loop's locals
    block,        \* buildStruct: (string, error) returned
    argTy,        \* typescriptType: the type it is called with
    retTs         \* typescriptType: (TypescriptType, error) returned

vars == <<pkgName, scope, comments, pc, ci, ignoredTypes, visited, structs,
          generics, enums, enumConsts, result, doc, st, fi, state, block,
          argTy, retTs>>

genVars == <<ci, ignoredTypes, visited, structs, generics, enums, enumConsts,
             result, doc>>

structVars == <<st, fi, state, block>>

typeVars == <<argTy, retTs>>

-----------------------------------------------------------------------------
(* Strings *)

indent == "  "

codersdkPath == "github.com/coder/coder/codersdk"

\* The bytes of the strings the program sorts: the names of declarations,
\* the values of constants and the quote.
Bytes(s) ==
    CASE s = "Box" -> <<66, 111, 120>>
      [] s = "Color" -> <<67, 111, 108, 111, 114>>
      [] s = "Custom" -> <<67, 117, 115, 116, 111, 109>>
      [] s = "Foo" -> <<70, 111, 111>>
      [] s = "Mode" -> <<77, 111, 100, 101>>
      [] s = "Single" -> <<83, 105, 110, 103, 108, 101>>
      [] s = "StringMap" -> <<83, 116, 114, 105, 110, 103, 77, 97, 112>>
      [] s = "ID" -> <<73, 68>>
      [] s = "Ch" -> <<67, 104>>
      [] s = "Bad" -> <<66, 97, 100>>
      [] s = "Stringer" -> <<83, 116, 114, 105, 110, 103, 101, 114>>
      [] s = "ColorBlue" -> <<67, 111, 108, 111, 114, 66, 108, 117, 101>>
      [] s = "ColorRed" -> <<67, 111, 108, 111, 114, 82, 101, 100>>
      [] s = "ColorGreen" -> <<67, 111, 108, 111, 114, 71, 114, 101, 101, 110>>
      [] s = "ExtColor" -> <<69, 120, 116, 67, 111, 108, 111, 114>>
      [] s = "Version" -> <<86, 101, 114, 115, 105, 111, 110>>
      [] s = "Me" -> <<77, 101>>
      [] s = "Paint" -> <<80, 97, 105, 110, 116>>
      [] s = "Key" -> <<75, 101, 121>>
      [] s = "Remote" -> <<82, 101, 109, 111, 116, 101>>
      [] s = "Printer" -> <<80, 114, 105, 110, 116, 101, 114>>
      [] s = "blue" -> <<98, 108, 117, 101>>
      [] s = "red" -> <<114, 101, 100>>
      [] s = "green" -> <<103, 114, 101, 101, 110>>
      [] s = "ext" -> <<101, 120, 116>>
      [] s = "v1" -> <<118, 49>>
      [] s = "\"" -> <<34>>
      [] OTHER -> <<>>

\* Go's string comparison a < b: the first differing byte decides, and a
\* proper prefix is smaller.
RECURSIVE BytesLess(_, _)
BytesLess(a, b) ==
    IF b = <<>> THEN FALSE
    ELSE IF a = <<>> THEN TRUE
    ELSE IF Head(a) # Head(b) THEN Head(a) < Head(b)
    ELSE BytesLess(Tail(a), Tail(b))

\* strings.Join(parts, sep), each part a text
RECURSIVE Join(_, _)
Join(parts, sep) ==
    IF parts = <<>> THEN <<>>
    ELSE IF Len(parts) = 1 THEN parts[1]
    ELSE parts[1] \o <<sep>> \o Join(Tail(parts), sep)

\* The bytes of a text: those of its fragments, one after the other.
RECURSIVE TextBytes(_)
TextBytes(text) ==
    IF text = <<>> THEN <<>> ELSE Bytes(Head(text)) \o TextBytes(Tail(text))

\* Insertion of one text into a list that is ascending in Go's string order.
RECURSIVE InsertSorted(_, _)
InsertSorted(sorted, text) ==
    IF sorted = <<>> THEN <<text>>
    ELSE IF BytesLess(TextBytes(text), TextBytes(Head(sorted)))
        THEN <<text>> \o sorted
    ELSE <<Head(sorted)>> \o InsertSorted(Tail(sorted), text)

\* sort.Strings(texts): ascending in Go's string order
RECURSIVE SortStrings(_)
SortStrings(texts) ==
    IF texts = <<>> THEN <<>>
    ELSE InsertSorted(SortStrings(Tail(texts)), Head(texts))

\* The sequences that enumerate the set S once each: the orders in which
\* Go may range over a map with keys S.
RECURSIVE Orders(_)
Orders(S) ==
    IF S = {} THEN {<<>>}
    ELSE UNION {{<<x>> \o o : o \in Orders(S \ {x})} : x \in S}

-----------------------------------------------------------------------------
(* go/types: type descriptors *)

Basic(n) == [k |-> "Basic", name |-> n]
Named(p, n, u) == [k |-> "Named", path |-> p, name |-> n, under |-> u]
Pointer(e) == [k |-> "Pointer", elem |-> e]
Slice(e) == [k |-> "Slice", elem |-> e]
Array(e) == [k |-> "Array", elem |-> e]
Map(key, e) == [k |-> "Map", key |-> key, elem |-> e]
Chan(e) == [k |-> "Chan", elem |-> e]
Struct(fs) == [k |-> "Struct", fields |-> fs]
Signature == [k |-> "Signature"]
\* An interface: its embedded types and its number of explicit methods;
\* implicit is set for the interface a constraint [T A | B] stands for.
Interface(embs, nm, imp) ==
    [k |-> "Interface", embeddeds |-> embs, methods |-> nm, implicit |-> imp]
Term(tilde, t) == [tilde |-> tilde, type |-> t]
Union(terms) == [k |-> "Union", terms |-> terms]
TypeParam(n, c) == [k |-> "TypeParam", name |-> n, constraint |-> c]

\* types.Basic.Info() & types.IsNumeric
IsNumeric(n) == n \in {"int", "int64", "uint8", "byte", "float64"}
\* types.Basic.Info() & types.IsBoolean
IsBoolean(n) == n = "bool"
\* types.Basic.Kind() == types.Byte (Byte = Uint8)
IsByteKind(n) == n \in {"byte", "uint8"}

\* types.Type.String()
RECURSIVE TypeString(_)
TypeString(ty) ==
    CASE ty.k = "Basic" -> <<ty.name>>
      [] ty.k = "Named" -> <<ty.path, ".", ty.name>>
      [] ty.k = "Pointer" -> <<"*">> \o TypeString(ty.elem)
      [] ty.k = "Slice" -> <<"[]">> \o TypeString(ty.elem)
      [] ty.k = "Array" -> <<"[N]">> \o TypeString(ty.elem)
      [] ty.k = "Map" ->
            <<"map[">> \o TypeString(ty.key) \o <<"]">> \o TypeString(ty.elem)
      [] ty.k = "Chan" -> <<"chan ">> \o TypeString(ty.elem)
      [] ty.k = "Struct" -> <<"struct{...}">>
      [] ty.k = "Signature" -> <<"func()">>
      [] ty.k = "Union" ->
            Join([i \in 1..Len(ty.terms) |->
                    (IF ty.terms[i].tilde THEN <<"~">> ELSE <<>>)
                        \o TypeString(ty.terms[i].type)], " | ")
      [] ty.k = "Interface" ->
            IF ty.implicit THEN TypeString(ty.embeddeds[1])
            ELSE IF ty.embeddeds = <<>> /\ ty.methods = 0 THEN <<"interface{}">>
            ELSE <<"interface{">>
                    \o Join([i \in 1..Len(ty.embeddeds) |->
                                TypeString(ty.embeddeds[i])], "; ")
                    \o (IF ty.methods > 0 THEN <<"M()">> ELSE <<>>)
                    \o <<"}">>
      [] ty.k = "TypeParam" -> <<ty.name>>

\* types.Type.Underlying()
Underlying(ty) ==
    CASE ty.k = "Named" -> ty.under
      [] ty.k = "TypeParam" ->
            IF ty.constraint.k = "Named" THEN ty.constraint.under
            ELSE ty.constraint
      [] OTHER -> ty

\* strings.TrimPrefix(text, "github.com/coder/coder/codersdk.")
TrimCodersdkPrefix(text) ==
    IF Len(text) >= 2 /\ text[1] = codersdkPath /\ text[2] = "."
    THEN SubSeq(text, 3, Len(text))
    ELSE text

-----------------------------------------------------------------------------
(* typescriptType *)

indentedComment(comment) == <<indent, "// ">> \o comment

TypescriptType(gm, vt, above, opt) ==
    [err |-> <<>>, GenericMapping |-> gm, ValueType |-> vt,
     AboveTypeLine |-> above, Optional |-> opt]

\* (TypescriptType{}, err)
TypescriptTypeErr(e) ==
    [err |-> e, GenericMapping |-> "", ValueType |-> <<>>,
     AboveTypeLine |-> <<>>, Optional |-> FALSE]

\* The external named types that are handled uniquely.
WellKnown(ty) ==
    CASE ty.path = "net/url" /\ ty.name = "URL" ->
            TypescriptType("", <<"string">>, <<>>, FALSE)
      [] ty.path = "time" /\ ty.name = "Time" ->
            TypescriptType("", <<"string">>, <<>>, FALSE)
      [] ty.path = "database/sql" /\ ty.name = "NullTime" ->
            TypescriptType("", <<"string">>, <<>>, TRUE)
      [] ty.path = codersdkPath /\ ty.name = "NullTime" ->
            TypescriptType("", <<"string">>, <<>>, TRUE)
      [] ty.path = "github.com/google/uuid" /\ ty.name = "NullUUID" ->
            TypescriptType("", <<"string">>, <<>>, TRUE)
      [] ty.path = "github.com/google/uuid" /\ ty.name = "UUID" ->
            TypescriptType("", <<"string">>, <<>>, FALSE)
      [] OTHER -> TypescriptTypeErr(<<"not well known">>)

\* typescriptType(ty), names being the names g.pkg.Types.Scope() declares
RECURSIVE typescriptType(_, _)
typescriptType(ty, names) ==
    CASE ty.k = "Basic" ->
            IF IsNumeric(ty.name) THEN TypescriptType("", <<"number">>, <<>>, FALSE)
            ELSE IF IsBoolean(ty.name) THEN TypescriptType("", <<"boolean">>, <<>>, FALSE)
            ELSE IF IsByteKind(ty.name)
                THEN TypescriptType("", <<"number">>,
                        indentedComment(<<"This is a byte in golang">>), FALSE)
            ELSE TypescriptType("", <<ty.name>>, <<>>, FALSE)
      [] ty.k = "Struct" ->
            TypescriptType("", <<"any">>,
                indentedComment(<<"Embedded anonymous struct, please fix by naming it">>)
                    \o <<"\n">>
                    \o indentedComment(<<"eslint-disable-next-line @typescript-eslint/no-explicit-any">>),
                FALSE)
      [] ty.k = "Map" ->
            LET keyType == typescriptType(ty.key, names)
                valueType == typescriptType(ty.elem, names)
            IN  IF keyType.err # <<>>
                    THEN TypescriptTypeErr(<<"map key: ">> \o keyType.err)
                ELSE IF valueType.err # <<>>
                    THEN TypescriptTypeErr(<<"map key: ">> \o valueType.err)
                ELSE TypescriptType("",
                        <<"Record<">> \o keyType.ValueType \o <<", ">>
                            \o valueType.ValueType \o <<">">>,
                        keyType.AboveTypeLine
                            \o (IF keyType.AboveTypeLine # <<>>
                                   /\ valueType.AboveTypeLine # <<>>
                                THEN <<"\n">> ELSE <<>>)
                            \o valueType.AboveTypeLine,
                        FALSE)
      [] ty.k \in {"Slice", "Array"} ->
            IF TypeString(ty.elem) = <<"byte">>
                THEN TypescriptType("", <<"string">>, <<>>, FALSE)
            ELSE LET underlying == typescriptType(ty.elem, names)
                 IN  IF underlying.err # <<>>
                        THEN TypescriptTypeErr(<<"array: ">> \o underlying.err)
                     ELSE TypescriptType("", underlying.ValueType \o <<"[]">>,
                            underlying.AboveTypeLine, FALSE)
      [] ty.k = "Named" ->
            IF WellKnown(ty).err = <<>> THEN WellKnown(ty)
            ELSE IF ty.name \in names
                THEN TypescriptType("", <<ty.name>>, <<>>, FALSE)
            ELSE IF ty.under.k = "Struct"
                THEN TypescriptType("", <<"any">>,
                        indentedComment(<<"Named type \"">> \o TypeString(ty)
                                            \o <<"\" unknown, using \"any\"">>)
                            \o <<"\n">>
                            \o indentedComment(<<"eslint-disable-next-line @typescript-eslint/no-explicit-any">>),
                        FALSE)
            ELSE LET ts == typescriptType(ty.under, names)
                 IN  IF ts.err # <<>>
                        THEN TypescriptTypeErr(<<"named underlying: ">> \o ts.err)
                     ELSE [ts EXCEPT !.AboveTypeLine =
                            indentedComment(<<"This is likely an enum in an external package (\"">>
                                                \o TypeString(ty) \o <<"\")">>)]
      [] ty.k = "Pointer" ->
            LET resp == typescriptType(ty.elem, names)
            IN  IF resp.err # <<>>
                    THEN TypescriptTypeErr(<<"pointer: ">> \o resp.err)
                ELSE [resp EXCEPT !.Optional = TRUE]
      [] ty.k = "Interface" ->
            IF ty.embeddeds = <<>> /\ ty.methods = 0
                THEN TypescriptType("", <<"any">>,
                        indentedComment(<<"eslint-disable-next-line">>), FALSE)
            ELSE TypescriptTypeErr(<<"only empty interface types are supported">>)
      [] ty.k = "TypeParam" ->
            IF Underlying(ty).k # "Interface"
                THEN TypescriptTypeErr(<<"type param must be an interface">>)
            ELSE TypescriptType(ty.name,
                    TrimCodersdkPrefix(TypeString(ty.constraint)), <<>>, FALSE)
      [] OTHER -> TypescriptTypeErr(<<"unknown type: ">> \o TypeString(ty))

-----------------------------------------------------------------------------
(* Declared objects *)

\* types.Object: a name, what it declares (TypeName, Const, Var, Func), its
\* type, the value of a constant, the base name of its file.
Object(n, kind, ty, val, file) ==
    [name |-> n, kind |-> kind, type |-> ty, val |-> val, file |-> file]

\* posLine(obj)
posLine(obj) == <<"// From ", "codersdk/", obj.file, "\n">>

-----------------------------------------------------------------------------
(* Struct tags *)

\* One key of a struct tag as structtag.Parse gives it: whether the key is
\* there, the name and the options.
TagValue(has, name, options) == [has |-> has, Name |-> name, Options |-> options]
NoTag == TagValue(FALSE, "", <<>>)
StructTag(json, ts) == [json |-> json, typescript |-> ts]

\* reflect.StructTag.Get(key) == ""
TagGetIsEmpty(tv) == ~tv.has \/ (tv.Name = "" /\ tv.Options = <<>>)

\* types.Var of a struct field, with the field's tag (st.Tag(i)). pkg is
\* field.Pkg().Name(): the package in which the struct is declared.
Field(n, ty, embedded, tag, pkg) ==
    [Name |-> n, Type |-> ty, Embedded |-> embedded, Tag |-> tag, Pkg |-> pkg]

-----------------------------------------------------------------------------
(* buildStruct *)

\* structTemplateState{} with the locals of buildStruct: extendedFields,
\* genericsUsed; fieldOf[j] is the index of the field that Fields[j] renders.
NewStructState(obj) ==
    [PosLine |-> posLine(obj), Name |-> obj.name, Fields |-> <<>>,
     Generics |-> <<>>, Extends |-> <<>>, AboveLine |-> <<>>,
     extendedFields |-> {}, genericsUsed |-> {}, fieldOf |-> <<>>]

\* The condition under which a field is rendered as a base type.
IsExtended(field) ==
    field.Embedded /\ TagGetIsEmpty(field.Tag.json) /\ field.Pkg = "codersdk"

\* The names of the fields of ext from field i on, in the order of the fields.
RECURSIVE ExtendedNames(_, _, _)
ExtendedNames(fields, ext, i) ==
    IF i > Len(fields) THEN <<>>
    ELSE (IF i \in ext THEN <<(<<fields[i].Name>>)>> ELSE <<>>)
            \o ExtendedNames(fields, ext, i + 1)

\* The first loop of buildStruct: the embedded fields rendered by extension.
WithExtends(s, fields) ==
    LET ext == {i \in 1..Len(fields) : IsExtended(fields[i])}
    IN  [s EXCEPT !.extendedFields = ext,
                  !.Extends = Join(ExtendedNames(fields, ext, 1), ", ")]

\* jsonOptional as buildStruct computes it from the json tag.
JsonOptional(jsonTag) ==
    jsonTag.has /\ Len(jsonTag.Options) > 0 /\ jsonTag.Options[1] = "omitempty"

\* The typescript tag applied for its name alone, its options unread.
ApplyTypescriptTagNameOnly(tsType, typescriptTag) ==
    IF typescriptTag.has /\ typescriptTag.Name # ""
        THEN TypescriptType("", <<typescriptTag.Name>>, <<>>, FALSE)
    ELSE tsType

\* The typescript tag applied to the inferred type.
ApplyTypescriptTag(tsType, typescriptTag) ==
    LET named == IF typescriptTag.has /\ typescriptTag.Name # ""
                    THEN TypescriptType("", <<typescriptTag.Name>>, <<>>, FALSE)
                 ELSE tsType
    IN  IF typescriptTag.has /\ Len(typescriptTag.Options) > 0
           /\ typescriptTag.Options[1] = "notnull"
            THEN [named EXCEPT !.Optional = FALSE]
        ELSE named

\* The optional marker of a field line.
OptionalMark(jsonOptional, tsType) ==
    IF jsonOptional \/ tsType.Optional THEN "?" ELSE ""

\* The line appended, and the generic parameter too whenever the field has
\* one, used before or not.
AppendFieldGenericAgain(s, i, jsonName, jsonOptional, tsType) ==
    LET isGeneric == tsType.GenericMapping # ""
        valueType == IF isGeneric THEN <<tsType.GenericMapping>> ELSE tsType.ValueType
        line == <<indent, "readonly ", jsonName, OptionalMark(jsonOptional, tsType), ": ">>
                    \o valueType
    IN  [s EXCEPT
            !.AboveLine = IF tsType.AboveTypeLine # <<>> THEN tsType.AboveTypeLine ELSE @,
            !.Generics = IF isGeneric
                            THEN Append(@, <<tsType.GenericMapping, " extends ">>
                                                \o tsType.ValueType)
                         ELSE @,
            !.genericsUsed = IF isGeneric THEN @ \cup {tsType.GenericMapping} ELSE @,
            !.Fields = Append(@, line),
            !.fieldOf = Append(@, i)]

\* The rest of an iteration of the second loop of buildStruct, once the
\* field's type is mapped and its tags are applied: the line is appended.
AppendField(s, i, jsonName, jsonOptional, tsType) ==
    LET isGeneric == tsType.GenericMapping # ""
        valueType == IF isGeneric THEN <<tsType.GenericMapping>> ELSE tsType.ValueType
        line == <<indent, "readonly ", jsonName, OptionalMark(jsonOptional, tsType), ": ">>
                    \o valueType
    IN  [s EXCEPT
            !.AboveLine = IF tsType.AboveTypeLine # <<>> THEN tsType.AboveTypeLine ELSE @,
            !.Generics = IF isGeneric /\ tsType.GenericMapping \notin s.genericsUsed
                            THEN Append(@, <<tsType.GenericMapping, " extends ">>
                                                \o tsType.ValueType)
                         ELSE @,
            !.genericsUsed = IF isGeneric THEN @ \cup {tsType.GenericMapping} ELSE @,
            !.Fields = Append(@, line),
            !.fieldOf = Append(@, i)]

\* An iteration of the second loop of buildStruct from the call of
\* typescriptType on, which returned inferred.
FieldMapped(s, field, i, inferred) ==
    IF inferred.err # <<>>
        THEN [s |-> s, err |-> <<"typescript type: ">> \o inferred.err]
    ELSE IF field.Tag.typescript.has /\ field.Tag.typescript.Name = "-"
        THEN [s |-> s, err |-> <<>>]
    ELSE [s |-> AppendField(s, i,
                    IF field.Tag.json.has /\ field.Tag.json.Name # ""
                        THEN field.Tag.json.Name ELSE field.Name,
                    JsonOptional(field.Tag.json),
                    ApplyTypescriptTag(inferred, field.Tag.typescript)),
          err |-> <<>>]

\* One iteration of the second loop of buildStruct, for field i.
\* [s |-> the state after it, err |-> the error returned, if any]
StructField(s, field, i, names) ==
    IF i \in s.extendedFields THEN [s |-> s, err |-> <<>>]
    ELSE IF field.Tag.json.has /\ field.Tag.json.Name = "-" THEN [s |-> s, err |-> <<>>]
    ELSE FieldMapped(s, field, i, typescriptType(field.Type, names))

\* tpl.Execute(data, state) with structTemplate
ExecuteStructTemplate(s) ==
    s.PosLine
        \o (IF s.AboveLine # <<>> THEN s.AboveLine \o <<"\n">> ELSE <<>>)
        \o <<"export interface ", s.Name>>
        \o (IF s.Generics # <<>> THEN <<"<">> \o Join(s.Generics, ", ") \o <<">">> ELSE <<>>)
        \o (IF s.Extends # <<>> THEN <<" extends ">> \o s.Extends ELSE <<>>)
        \o <<" {", "\n">> \o Join(s.Fields, "\n") \o <<"\n", "}", "\n">>

\* The second loop of buildStruct from field i on; r is what the iteration
\* for field i - 1 gave.
RECURSIVE StructFieldsFrom(_, _, _, _)
StructFieldsFrom(r, fields, i, names) ==
    IF r.err # <<>> \/ i > Len(fields) THEN r
    ELSE StructFieldsFrom(StructField(r.s, fields[i], i, names), fields, i + 1, names)

\* What buildStruct returns after its second loop gave r.
StructBlock(r) ==
    IF r.err # <<>> THEN [text |-> <<>>, err |-> r.err]
    ELSE [text |-> ExecuteStructTemplate(r.s), err |-> <<>>]

\* buildStruct(obj, st): [text |-> the code block, err |-> the error, if any]
buildStruct(obj, fields, names) ==
    StructBlock(StructFieldsFrom(
        [s |-> WithExtends(NewStructState(obj), fields), err |-> <<>>],
        fields, 1, names))

\* What buildUnion returns, mapped being what typescriptType gave for the terms.
UnionBlock(obj, union, mapped) ==
    LET failed == {i \in 1..Len(mapped) : mapped[i].err # <<>>}
        optional == \E i \in 1..Len(mapped) : mapped[i].Optional
        allTypes == [i \in 1..Len(mapped) |-> mapped[i].ValueType]
    IN  IF failed # {}
            THEN [text |-> <<>>,
                  err |-> <<"union \"">> \o TypeString(union) \o <<"\" for \"", obj.name,
                            "\" failed to get type: ">>
                          \o mapped[CHOOSE i \in failed : \A j \in failed : i <= j].err]
        ELSE [text |-> posLine(obj)
                        \o <<"export type ", obj.name, IF optional THEN "?" ELSE "", " = ">>
                        \o Join(allTypes, " | ") \o <<"\n">>,
              err |-> <<>>]

\* buildUnion(obj, st): [text |-> the code block, err |-> the error, if any]
buildUnion(obj, union, names) ==
    UnionBlock(obj, union,
        [i \in 1..Len(union.terms) |-> typescriptType(union.terms[i].type, names)])

-----------------------------------------------------------------------------
(* generateAll *)

\* A nil pointer, and a pointer to x.
Nil == <<>>
Ptr(x) == <<x>>

\* A Go map as a function; m[k] = v
Put(m, k, v) == (k :> v) @@ m

\* The text after the first "@typescript-ignore[:]?" of a comment line: the
\* submatch ignored_types of ignoreRegex; <<>> when the line does not match.
IgnoredTypesMatch(text) ==
    LET at == {i \in 1..Len(text) : text[i] = "@typescript-ignore"}
    IN  IF at = {} THEN <<>>
        ELSE LET i == CHOOSE i \in at : \A j \in at : i <= j
                 from == IF i < Len(text) /\ text[i + 1] = ":" THEN i + 2 ELSE i + 1
             IN  SubSeq(text, from, Len(text))

\* strings.Split(text, ",")
RECURSIVE SplitComma(_)
SplitComma(text) ==
    LET at == {i \in 1..Len(text) : text[i] = ","}
    IN  IF at = {} THEN <<text>>
        ELSE LET i == CHOOSE i \in at : \A j \in at : i <= j
             IN  <<SubSeq(text, 1, i - 1)>> \o SplitComma(SubSeq(text, i + 1, Len(text)))

\* strings.TrimSpace(text)
RECURSIVE TrimSpace(_)
TrimSpace(text) ==
    IF text = <<>> THEN <<>>
    ELSE IF Head(text) = " " THEN TrimSpace(Tail(text))
    ELSE IF text[Len(text)] = " " THEN TrimSpace(SubSeq(text, 1, Len(text) - 1))
    ELSE text

\* The identifiers of a comment line as split, their spaces kept.
IgnoredInUntrimmed(text) ==
    LET m == IgnoredTypesMatch(text)
    IN  IF m = <<>> THEN {}
        ELSE {SplitComma(m)[i] : i \in 1..Len(SplitComma(m))}

\* The identifiers one comment line adds to ignoredTypes.
IgnoredIn(text) ==
    LET m == IgnoredTypesMatch(text)
    IN  IF m = <<>> THEN {}
        ELSE {TrimSpace(SplitComma(m)[i]) : i \in 1..Len(SplitComma(m))}

\* The names of the objects of a scope: Scope().Names()
Names(sc) == {o.name : o \in sc}

\* The code block of a declared map type.
MapBlock(obj, ts) ==
    posLine(obj)
        \o (IF ts.AboveTypeLine # <<>> THEN ts.AboveTypeLine \o <<"\n">> ELSE <<>>)
        \o <<"export type ", obj.name, " = ">> \o ts.ValueType \o <<"\n">>

\* The error of the default case of the switch over the underlying type.
UnsupportedNamedType(obj, underNamed) ==
    <<"unsupported named type \"">> \o TypeString(underNamed) \o <<"\"">>

\* The union a declared interface with one embedded type stands for.
EmbeddedUnion(underNamed) ==
    IF underNamed.embeddeds[1].k = "Union" THEN underNamed.embeddeds[1]
    ELSE Union(<<Term(TRUE, underNamed.embeddeds[1])>>)

\* A returned code block b stored in the collection coll under the name of
\* obj, or its error returned behind prefix.
Store(c, coll, obj, b, prefix) ==
    IF b.err # <<>> THEN [c |-> c, err |-> prefix \o b.err]
    ELSE [c |-> [c EXCEPT ![coll] = Put(@, obj.name, b.text)], err |-> <<>>]

\* The declared map type, typescriptType having returned ts.
MapDeclared(obj, ts) ==
    IF ts.err # <<>> THEN [text |-> <<>>, err |-> ts.err]
    ELSE [text |-> MapBlock(obj, ts), err |-> <<>>]

\* A constant recorded only when its base type was visited before it.
RecordConstIfBaseSeen(c, obj) ==
    IF obj.type.k = "Named" /\ obj.type.name \in DOMAIN c.enums
        THEN [c EXCEPT !.enumConsts =
                Put(@, obj.type.name,
                    Append(IF obj.type.name \in DOMAIN @ THEN @[obj.type.name] ELSE <<>>,
                           obj))]
    ELSE c

\* case *types.Const: a constant of a named type is appended to the constants
\* recorded under the name of its type.
RecordConst(c, obj) ==
    IF obj.type.k = "Named"
        THEN [c EXCEPT !.enumConsts =
                Put(@, obj.type.name,
                    Append(IF obj.type.name \in DOMAIN @ THEN @[obj.type.name] ELSE <<>>,
                           obj))]
    ELSE c

\* A declared sequence rendered the way a declared map is.
SequenceDeclaredAsMap(c, obj, names) ==
    Store(c, "structs", obj, MapDeclared(obj, typescriptType(obj.type.under, names)),
          <<"(array) generate \"", obj.name, "\": ">>)

\* case *types.Array, *types.Slice: nothing is generated.
SequenceDeclared(c, obj, names) == [c |-> c, err |-> <<>>]

\* The body of the loop over Scope().Names() for one object, on the
\* collections c = [structs, generics, enums, enumConsts].
\* [c |-> the collections after it, err |-> the error returned, if any]
VisitObject(c, obj, ignored, names) ==
    IF <<obj.name>> \in ignored THEN [c |-> c, err |-> <<>>]
    ELSE IF obj.kind = "TypeName" THEN
        CASE obj.type.under.k = "Struct" ->
                Store(c, "structs", obj, buildStruct(obj, obj.type.under.fields, names),
                      <<"generate \"", obj.name, "\": ">>)
          [] obj.type.under.k = "Basic" ->
                [c |-> [c EXCEPT !.enums = Put(@, obj.name, obj)], err |-> <<>>]
          [] obj.type.under.k = "Map" ->
                Store(c, "structs", obj,
                      MapDeclared(obj, typescriptType(obj.type.under, names)),
                      <<"(map) generate \"", obj.name, "\": ">>)
          [] obj.type.under.k \in {"Array", "Slice"} -> SequenceDeclared(c, obj, names)
          [] obj.type.under.k = "Interface" ->
                IF Len(obj.type.under.embeddeds) = 1
                    THEN Store(c, "generics", obj,
                               buildUnion(obj, EmbeddedUnion(obj.type.under), names),
                               <<"generate union \"", obj.name, "\": ">>)
                ELSE [c |-> c, err |-> <<>>]
          [] obj.type.under.k = "Signature" -> [c |-> c, err |-> <<>>]
          [] OTHER -> [c |-> c, err |-> UnsupportedNamedType(obj, obj.type.under)]
    ELSE IF obj.kind = "Const" THEN [c |-> RecordConst(c, obj), err |-> <<>>]
    ELSE [c |-> c, err |-> <<>>]

\* constant.Value.String() of a string constant: the quoted value
ValString(val) == <<"\"", val, "\"">>

\* The code block of one enum, its values joined in the order of the constants.
EnumBlockUnsorted(name, obj, consts) ==
    posLine(obj) \o <<"export type ", name, " = ">>
        \o Join([i \in 1..Len(consts) |-> ValString(consts[i].val)], " | ") \o <<"\n">>

\* The code block of one enum: its values, sorted and joined.
EnumBlock(name, obj, consts) ==
    LET values == SortStrings([i \in 1..Len(consts) |-> ValString(consts[i].val)])
    IN  posLine(obj) \o <<"export type ", name, " = ">> \o Join(values, " | ") \o <<"\n">>

\* The loop that writes all enums.
EnumCodeBlocks(en, consts) ==
    [name \in DOMAIN en |->
        EnumBlock(name, en[name],
                  IF name \in DOMAIN consts THEN consts[name] ELSE <<>>)]

\* &TypescriptTypes{...}
TypescriptTypes(types, en, gen) == [Types |-> types, Enums |-> en, Generics |-> gen]

\* What GenerateFromDirectory returns for an error of generateAll.
GenerateError(directory, err) ==
    [codeBlocks |-> Nil, err |-> <<"parse package \"", directory, "\": ">> \o err]

-----------------------------------------------------------------------------
(* TypescriptTypes.String *)

RECURSIVE WriteBlocks(_, _)
WriteBlocks(m, keys) ==
    IF keys = <<>> THEN <<>>
    ELSE m[Head(keys)[1]] \o <<"\n">> \o WriteBlocks(m, Tail(keys))

\* strings.TrimRight(text, "\n")
RECURSIVE TrimRightNewlines(_)
TrimRightNewlines(text) ==
    IF text # <<>> /\ text[Len(text)] = "\n"
        THEN TrimRightNewlines(SubSeq(text, 1, Len(text) - 1))
    ELSE text

Banner ==
    <<"// Code generated by 'make coder/scripts/apitypings/main.go'. DO NOT EDIT.",
      "\n", "\n">>

\* A String() that sorts the keys of Types only.
StringSortsTypesOnly(t, kt, ke, kg) ==
    TrimRightNewlines(
        Banner
        \o WriteBlocks(t.Types, SortStrings(kt))
        \o WriteBlocks(t.Enums, ke)
        \o WriteBlocks(t.Generics, kg))

\* t.String(), the three maps being ranged over in the orders kt, ke, kg
String(t, kt, ke, kg) ==
    TrimRightNewlines(
        Banner
        \o WriteBlocks(t.Types, SortStrings(kt))
        \o WriteBlocks(t.Enums, SortStrings(ke))
        \o WriteBlocks(t.Generics, SortStrings(kg)))

\* The orders in which a map may be ranged over, its keys as texts.
KeyOrders(m) == Orders({<<k>> : k \in DOMAIN m})

-----------------------------------------------------------------------------
(* The packages the model runs the generator on *)

baseDir == "./codersdk"

\* The import path of the scanned package.
PkgPath(pkg) == IF pkg = "codersdk" THEN codersdkPath ELSE "example.com/other"

NoTags == StructTag(NoTag, NoTag)
JsonName(n) == StructTag(TagValue(TRUE, n, <<>>), NoTag)

\* interface{ string | int }
CustomInterface ==
    Interface(<<Union(<<Term(FALSE, Basic("string")), Term(FALSE, Basic("int"))>>)>>,
              0, FALSE)

\* The declarations packages are made of (pkg: the package's name).
Catalog(pkg) ==
    LET P == PkgPath(pkg)
        Color == Named(P, "Color", Basic("string"))
    IN  {
        \* type Foo struct { Bar string; Baz *int }
        Object("Foo", "TypeName",
            Named(P, "Foo", Struct(<<
                Field("Bar", Basic("string"), FALSE, NoTags, pkg),
                Field("Baz", Pointer(Basic("int")), FALSE, NoTags, pkg)>>)),
            "", "foo.go"),
        \* type Box[T Custom] struct { Value T `json:"value"` }
        Object("Box", "TypeName",
            Named(P, "Box", Struct(<<
                Field("Value", TypeParam("T", Named(P, "Custom", CustomInterface)),
                      FALSE, JsonName("value"), pkg)>>)),
            "", "box.go"),
        \* type Bad struct { X interface{ M() } }
        Object("Bad", "TypeName",
            Named(P, "Bad", Struct(<<
                Field("X", Interface(<<>>, 1, FALSE), FALSE, NoTags, pkg)>>)),
            "", "bad.go"),
        \* type StringMap map[string]string
        Object("StringMap", "TypeName",
            Named(P, "StringMap", Map(Basic("string"), Basic("string"))), "", "foo.go"),
        \* type Color string;  type Mode string
        Object("Color", "TypeName", Color, "", "color.go"),
        Object("Mode", "TypeName", Named(P, "Mode", Basic("string")), "", "foo.go"),
        \* type Custom interface { string | int };  type Single interface { string }
        Object("Custom", "TypeName", Named(P, "Custom", CustomInterface), "", "box.go"),
        Object("Single", "TypeName",
            Named(P, "Single", Interface(<<Basic("string")>>, 0, FALSE)), "", "box.go"),
        \* type Stringer interface { M() }
        Object("Stringer", "TypeName",
            Named(P, "Stringer", Interface(<<>>, 1, FALSE)), "", "foo.go"),
        \* type ID []byte
        Object("ID", "TypeName", Named(P, "ID", Slice(Basic("byte"))), "", "foo.go"),
        \* type Ch chan int
        Object("Ch", "TypeName", Named(P, "Ch", Chan(Basic("int"))), "", "foo.go"),
        \* const ( ColorBlue Color = "blue"; ColorRed Color = "red"; ... )
        Object("ColorBlue", "Const", Color, "blue", "color.go"),
        Object("ColorRed", "Const", Color, "red", "color.go"),
        Object("ColorGreen", "Const", Color, "green", "color.go"),
        \* const ExtColor ext.Color = "ext";  const Version = "v1"
        Object("ExtColor", "Const", Named("example.com/ext", "Color", Basic("string")),
               "ext", "foo.go"),
        Object("Version", "Const", Basic("untyped string"), "v1", "foo.go"),
        \* var Me = "me"
        Object("Me", "Var", Basic("string"), "", "foo.go")
        }

\* The declarations a declaration refers to: a package that holds the one
\* holds the others, or it would not type-check.
Deps(name) ==
    CASE name = "Box" -> {"Custom"}
      [] name \in {"ColorBlue", "ColorRed", "ColorGreen"} -> {"Color"}
      [] OTHER -> {}

\* The package made of the declarations roots and of those they refer to.
PackageOf(pkg, roots) ==
    LET need == roots \cup UNION {Deps(n) : n \in roots}
    IN  {o \in Catalog(pkg) : o.name \in need}

\* The number of declarations a package is chosen from (those they refer to
\* come with them).
MaxDecls == 3

\* The subsets of S of at most n elements.
RECURSIVE SubsetsUpTo(_, _)
SubsetsUpTo(S, n) ==
    IF n = 0 THEN {{}}
    ELSE LET smaller == SubsetsUpTo(S, n - 1)
         IN  smaller \cup {r \cup {x} : r \in smaller, x \in S}

\* A comment line: its text, and the identifiers its directive lists.
Comment(text, listed) == [text |-> text, listed |-> listed]

\* The comment lines of the packages.
CommentLists ==
    LET fooColor == Comment(<<"// ", "@typescript-ignore", ":", " ", "Foo", ",", " ", "Color">>,
                            {"Foo", "Color"})
        customMap == Comment(<<"// ", "@typescript-ignore", " ", "Custom", ",", "StringMap", " ">>,
                             {"Custom", "StringMap"})
        plain == Comment(<<"// ", "Foo is a record.">>, {})
        failing == Comment(<<"// ", "@typescript-ignore", ":", "Ch", " ", ",", "Bad", ",",
                             " ", "ColorRed">>, {"Ch", "Bad", "ColorRed"})
    IN  {<<>>, <<plain, fooColor>>, <<customMap>>, <<failing, plain>>}

\* The variables of a rendering of one struct, when none is under way.
StructIdle ==
    /\ st = [obj |-> Object("", "TypeName", Struct(<<>>), "", ""), fields |-> <<>>]
    /\ fi = 0
    /\ state = NewStructState(st.obj)
    /\ block = [text |-> <<>>, err |-> <<>>]

\* typescriptType is not being called on its own.
TypeIdle ==
    /\ argTy = Nil
    /\ retTs = Nil

EmptyCollections ==
    [structs |-> <<>>, generics |-> <<>>, enums |-> <<>>, enumConsts |-> <<>>]

Init ==
    /\ pkgName = "codersdk"
    /\ \E roots \in SubsetsUpTo(Names(Catalog(pkgName)), MaxDecls) :
        scope = PackageOf(pkgName, roots)
    /\ comments \in CommentLists
    /\ pc = "generateAll"
    /\ ci = 0
    /\ ignoredTypes = {}
    /\ visited = {}
    /\ structs = <<>>
    /\ generics = <<>>
    /\ enums = <<>>
    /\ enumConsts = <<>>
    /\ result = [codeBlocks |-> Nil, err |-> <<>>]
    /\ doc = <<>>
    /\ StructIdle
    /\ TypeIdle

\* generateAll: one iteration of the loop over the comment lines.
ScanComment ==
    /\ pc = "generateAll"
    /\ ci < Len(comments)
    /\ ignoredTypes' = ignoredTypes \cup IgnoredIn(comments[ci + 1].text)
    /\ ci' = ci + 1
    /\ UNCHANGED <<pkgName, scope, comments, pc, visited, structs, generics, enums,
                   enumConsts, result, doc, structVars, typeVars>>

\* The collections and the position after the loop's body returned r.
AfterVisit(obj, r) ==
    /\ visited' = visited \cup {obj.name}
    /\ structs' = r.c.structs
    /\ generics' = r.c.generics
    /\ enums' = r.c.enums
    /\ enumConsts' = r.c.enumConsts
    /\ IF r.err # <<>>
         THEN /\ result' = GenerateError(baseDir, r.err)
              /\ pc' = "returned"
         ELSE UNCHANGED <<result, pc>>

\* generateAll: one iteration of the loop over the declared objects; an error
\* ends generateAll and GenerateFromDirectory.
Visit ==
    /\ pc = "generateAll"
    /\ ci = Len(comments)
    /\ \E obj \in scope :
        /\ obj.name \notin visited
        /\ AfterVisit(obj, VisitObject([structs |-> structs, generics |-> generics,
                                        enums |-> enums, enumConsts |-> enumConsts],
                                       obj, ignoredTypes, Names(scope)))
    /\ UNCHANGED <<pkgName, scope, comments, ci, ignoredTypes, doc, structVars, typeVars>>

\* generateAll: after the loop, the enums are written and the collections
\* returned.
WriteEnums ==
    /\ pc = "generateAll"
    /\ ci = Len(comments)
    /\ visited = Names(scope)
    /\ result' = [codeBlocks |-> Ptr(TypescriptTypes(structs,
                                        EnumCodeBlocks(enums, enumConsts), generics)),
                  err |-> <<>>]
    /\ pc' = "returned"
    /\ UNCHANGED <<pkgName, scope, comments, ci, ignoredTypes, visited, structs,
                   generics, enums, enumConsts, doc, structVars, typeVars>>

\* main: the document is printed when GenerateFromDirectory returned no error.
Main ==
    /\ pc = "returned"
    /\ result.err = <<>>
    /\ \E kt \in KeyOrders(result.codeBlocks[1].Types),
          ke \in KeyOrders(result.codeBlocks[1].Enums),
          kg \in KeyOrders(result.codeBlocks[1].Generics) :
            doc' = String(result.codeBlocks[1], kt, ke, kg)
    /\ pc' = "printed"
    /\ UNCHANGED <<pkgName, scope, comments, ci, ignoredTypes, visited, structs,
                   generics, enums, enumConsts, result, structVars, typeVars>>

Next == ScanComment \/ Visit \/ WriteEnums \/ Main

Spec == Init /\ [][Next]_vars

-----------------------------------------------------------------------------
(* buildStruct on its own, one loop iteration at a time *)

\* type Base struct { ID string }, declared in the scanned package
BaseStruct(pkg) ==
    Struct(<<Field("ID", Basic("string"), FALSE, NoTags, pkg)>>)

\* The types of the fields of the structs rendered. A struct embeds a named
\* type or a pointer to one.
FieldTypes(pkg) ==
    {Basic("string"),
     Pointer(Basic("int")),
     Slice(Basic("byte")),
     Interface(<<>>, 1, FALSE),
     Named("database/sql", "NullTime", Struct(<<>>)),
     Named("time", "Time", Struct(<<>>)),
     Named(PkgPath(pkg), "Base", BaseStruct(pkg)),
     Pointer(Named(PkgPath(pkg), "Base", BaseStruct(pkg))),
     Named(PkgPath(pkg), "Color", Basic("string")),
     TypeParam("T", Named(PkgPath(pkg), "Custom", CustomInterface))}

Embeddable(ty) ==
    \/ ty.k = "Named"
    \/ ty.k = "Pointer" /\ ty.elem.k = "Named"

\* The json tags and the typescript tags of the fields: none, a name, options
\* after a name or after none, "-".
JsonTags ==
    {NoTag,
     TagValue(TRUE, "x", <<>>),
     TagValue(TRUE, "x", <<"omitempty">>),
     TagValue(TRUE, "", <<"omitempty">>),
     TagValue(TRUE, "x", <<"string", "omitempty">>),
     TagValue(TRUE, "-", <<>>)}

TypescriptTags ==
    {NoTag,
     TagValue(TRUE, "", <<"notnull">>),
     TagValue(TRUE, "string", <<>>),
     TagValue(TRUE, "string", <<"notnull">>),
     TagValue(TRUE, "-", <<>>)}

\* The name of a field: that of its type when embedded.
FieldNamed(n, ty, embedded, tag, pkg) ==
    Field(IF ~embedded THEN n ELSE IF ty.k = "Pointer" THEN ty.elem.name ELSE ty.name,
          ty, embedded, tag, pkg)

\* The fields a struct of one field may have.
OneFields(pkg) ==
    {FieldNamed("Value", x[1], x[2], StructTag(j, t), pkg) :
        x \in {y \in FieldTypes(pkg) \X BOOLEAN : y[2] => Embeddable(y[1])},
        j \in JsonTags, t \in TypescriptTags}

\* The structs of one field.
OneFieldStructs(pkg) == {<<f>> : f \in OneFields(pkg)}

\* The fields of the structs of several fields.
SomeFields(pkg) ==
    LET T == TypeParam("T", Named(PkgPath(pkg), "Custom", CustomInterface))
    IN  {Field("Value", T, FALSE, JsonName("value"), pkg),
         Field("Other", T, FALSE, StructTag(TagValue(TRUE, "other", <<"omitempty">>), NoTag), pkg),
         Field("Base", Named(PkgPath(pkg), "Base", BaseStruct(pkg)), TRUE, NoTags, pkg),
         Field("Time", Named("time", "Time", Struct(<<>>)), TRUE, NoTags, pkg),
         Field("Bar", Basic("string"), FALSE, NoTags, pkg),
         Field("Baz", Pointer(Basic("int")), FALSE,
               StructTag(NoTag, TagValue(TRUE, "", <<"notnull">>)), pkg)}

\* The number of fields of the structs of several fields.
MaxFields == 2

\* The sequences of at most n fields of F, no field twice.
RECURSIVE FieldSeqs(_, _)
FieldSeqs(F, n) ==
    IF n = 0 THEN {<<>>}
    ELSE LET shorter == FieldSeqs(F, n - 1)
         IN  shorter \cup {Append(fs, f) : fs \in shorter, f \in F}

Distinct(fs) == \A i, j \in 1..Len(fs) : i # j => fs[i].Name # fs[j].Name

StructInputs(pkg) ==
    OneFieldStructs(pkg) \cup {fs \in FieldSeqs(SomeFields(pkg), MaxFields) : Distinct(fs)}

\* type Rec struct { fields }
RecObject(pkg, fields) ==
    Object("Rec", "TypeName", Named(PkgPath(pkg), "Rec", Struct(fields)), "", "rec.go")

\* The package of the struct: the struct and the types its fields refer to.
StructScope(pkg, fields) ==
    {RecObject(pkg, fields),
     Object("Base", "TypeName", Named(PkgPath(pkg), "Base", BaseStruct(pkg)), "", "rec.go"),
     Object("Color", "TypeName", Named(PkgPath(pkg), "Color", Basic("string")), "", "rec.go"),
     Object("Custom", "TypeName", Named(PkgPath(pkg), "Custom", CustomInterface), "", "rec.go")}

InitStruct ==
    /\ pkgName \in {"codersdk", "other"}
    /\ \E fields \in StructInputs(pkgName) :
        /\ st = [obj |-> RecObject(pkgName, fields), fields |-> fields]
        /\ scope = StructScope(pkgName, fields)
    /\ comments = <<>>
    /\ pc = "buildStruct"
    /\ ci = 0
    /\ ignoredTypes = {}
    /\ visited = {}
    /\ structs = <<>>
    /\ generics = <<>>
    /\ enums = <<>>
    /\ enumConsts = <<>>
    /\ result = [codeBlocks |-> Nil, err |-> <<>>]
    /\ doc = <<>>
    /\ fi = 0
    /\ state = NewStructState(st.obj)
    /\ block = [text |-> <<>>, err |-> <<>>]
    /\ TypeIdle

\* buildStruct: the loop that finds the embedded fields rendered by extension.
Extend ==
    /\ pc = "buildStruct"
    /\ state' = WithExtends(state, st.fields)
    /\ pc' = "fields"
    /\ UNCHANGED <<pkgName, scope, comments, genVars, typeVars, st, fi, block>>

\* The state after an iteration of the second loop returned r.
AfterField(r) ==
    IF r.err # <<>>
        THEN /\ block' = [text |-> <<>>, err |-> r.err]
             /\ pc' = "returned"
             /\ UNCHANGED <<state, fi>>
    ELSE /\ state' = r.s
         /\ fi' = fi + 1
         /\ UNCHANGED <<block, pc>>

\* buildStruct: one iteration of the loop over the fields; an error ends
\* buildStruct.
FieldStep ==
    /\ pc = "fields"
    /\ fi < Len(st.fields)
    /\ AfterField(StructField(state, st.fields[fi + 1], fi + 1, Names(scope)))
    /\ UNCHANGED <<pkgName, scope, comments, genVars, typeVars, st>>

\* buildStruct: after the loop, the template is executed.
Execute ==
    /\ pc = "fields"
    /\ fi = Len(st.fields)
    /\ block' = [text |-> ExecuteStructTemplate(state), err |-> <<>>]
    /\ pc' = "returned"
    /\ UNCHANGED <<pkgName, scope, comments, genVars, typeVars, st, fi, state>>

NextStruct == Extend \/ FieldStep \/ Execute

SpecStruct == InitStruct /\ [][NextStruct]_vars

-----------------------------------------------------------------------------
(* typescriptType, called on its own *)

ExtPath == "example.com/ext"

\* The types that are not built from other types of the model.
LeafTypes(pkg) ==
    {Basic("string"), Basic("int"), Basic("bool"), Basic("byte"), Basic("uint8"),
     Interface(<<>>, 0, FALSE),
     Interface(<<>>, 1, FALSE),
     Struct(<<>>),
     Chan(Basic("int")),
     Named("time", "Time", Struct(<<>>)),
     Named("database/sql", "NullTime", Struct(<<>>)),
     Named(PkgPath(pkg), "Color", Basic("string")),
     Named(ExtPath, "Color", Basic("string")),
     Named(ExtPath, "Mode", Basic("string")),
     Named(ExtPath, "Unit", Basic("byte")),
     Named(ExtPath, "Any", Interface(<<>>, 0, FALSE)),
     Named(ExtPath, "Rec", Struct(<<>>)),
     TypeParam("T", Named(PkgPath(pkg), "Custom", CustomInterface))}

\* The nesting of the types typescriptType is called with.
MaxDepth == 1

\* The types built from those of S in one step.
Composites(S) ==
    {Map(k, v) : k \in S, v \in S}
        \cup {Slice(e) : e \in S}
        \cup {Array(e) : e \in S}
        \cup {Pointer(e) : e \in S}
        \cup {Named(ExtPath, "Wrap", e) : e \in S}

RECURSIVE TypesUpTo(_, _)
TypesUpTo(pkg, d) ==
    IF d = 0 THEN LeafTypes(pkg)
    ELSE TypesUpTo(pkg, d - 1) \cup Composites(TypesUpTo(pkg, d - 1))

\* The packages typescriptType runs in: Color is declared or it is not.
TypeScopes(pkg) == {PackageOf(pkg, {}), PackageOf(pkg, {"Color"})}

InitType ==
    /\ pkgName = "codersdk"
    /\ scope \in TypeScopes(pkgName)
    /\ comments = <<>>
    /\ pc = "typescriptType"
    /\ ci = 0
    /\ ignoredTypes = {}
    /\ visited = {}
    /\ structs = <<>>
    /\ generics = <<>>
    /\ enums = <<>>
    /\ enumConsts = <<>>
    /\ result = [codeBlocks |-> Nil, err |-> <<>>]
    /\ doc = <<>>
    /\ StructIdle
    /\ argTy \in {Ptr(ty) : ty \in TypesUpTo(pkgName, MaxDepth)}
    /\ retTs = Nil

\* g.typescriptType(ty)
CallTypescriptType ==
    /\ pc = "typescriptType"
    /\ retTs' = Ptr(typescriptType(argTy[1], Names(scope)))
    /\ pc' = "returned"
    /\ UNCHANGED <<pkgName, scope, comments, genVars, structVars, argTy>>

NextType == CallTypescriptType

SpecType == InitType /\ [][NextType]_vars

-----------------------------------------------------------------------------
(* generateAll on packages whose records refer to named types *)

\* Records with a field of a named type, and the declarations they name.
RefCatalog(pkg) ==
    LET P == PkgPath(pkg)
    IN  {o \in Catalog(pkg) : o.name \in {"Color", "ColorBlue", "ID", "Stringer"}}
        \cup {
        \* type Paint struct { C Color };  type Key struct { ID ID }
        Object("Paint", "TypeName",
            Named(P, "Paint", Struct(<<
                Field("C", Named(P, "Color", Basic("string")), FALSE, NoTags, pkg)>>)),
            "", "paint.go"),
        Object("Key", "TypeName",
            Named(P, "Key", Struct(<<
                Field("ID", Named(P, "ID", Slice(Basic("byte"))), FALSE, NoTags, pkg)>>)),
            "", "paint.go"),
        \* type Printer struct { S Stringer };  type Remote struct { C *ext.Color }
        Object("Printer", "TypeName",
            Named(P, "Printer", Struct(<<
                Field("S", Named(P, "Stringer", Interface(<<>>, 1, FALSE)),
                      FALSE, NoTags, pkg)>>)),
            "", "paint.go"),
        Object("Remote", "TypeName",
            Named(P, "Remote", Struct(<<
                Field("C", Pointer(Named(ExtPath, "Color", Basic("string"))),
                      FALSE, NoTags, pkg)>>)),
            "", "paint.go")
        }

\* The declarations a declaration of RefCatalog refers to.
RefDeps(name) ==
    CASE name = "Paint" -> {"Color"}
      [] name = "Key" -> {"ID"}
      [] name = "Printer" -> {"Stringer"}
      [] name = "ColorBlue" -> {"Color"}
      [] OTHER -> {}

RefPackageOf(pkg, roots) ==
    LET need == roots \cup UNION {RefDeps(n) : n \in roots}
    IN  {o \in RefCatalog(pkg) : o.name \in need}

InitRefs ==
    /\ pkgName = "codersdk"
    /\ \E roots \in SubsetsUpTo(Names(RefCatalog(pkgName)), MaxDecls) :
        scope = RefPackageOf(pkgName, roots)
    /\ comments \in CommentLists
    /\ pc = "generateAll"
    /\ ci = 0
    /\ ignoredTypes = {}
    /\ visited = {}
    /\ structs = <<>>
    /\ generics = <<>>
    /\ enums = <<>>
    /\ enumConsts = <<>>
    /\ result = [codeBlocks |-> Nil, err |-> <<>>]
    /\ doc = <<>>
    /\ StructIdle
    /\ TypeIdle

SpecRefs == InitRefs /\ [][Next]_vars

-----------------------------------------------------------------------------
(* generateAll as it runs: the objects visited in the order of             *)
(* Scope().Names(), which is sorted                                        *)

\* A set as a sequence, in some order.
RECURSIVE SeqOf(_)
SeqOf(S) ==
    IF S = {} THEN <<>>
    ELSE LET x == CHOOSE x \in S : TRUE IN <<x>> \o SeqOf(S \ {x})

\* Scope().Names(): the names, sorted
SortedNames(sc) == SortStrings(SeqOf({<<n>> : n \in Names(sc)}))

\* Scope().Lookup(n)
Lookup(sc, n) == CHOOSE o \in sc : o.name = n

\* The ignore set of the comment lines.
IgnoredTypesOf(cms) == UNION {IgnoredIn(cms[i].text) : i \in 1..Len(cms)}

\* The loop over the names from the i-th on; r is what the body last gave.
RECURSIVE VisitFrom(_, _, _, _, _)
VisitFrom(r, sc, sorted, i, ignored) ==
    IF r.err # <<>> \/ i > Len(sorted) THEN r
    ELSE VisitFrom(VisitObject(r.c, Lookup(sc, sorted[i][1]), ignored, Names(sc)),
                   sc, sorted, i + 1, ignored)

\* What GenerateFromDirectory returns, the loop having given r.
Returned(r) ==
    IF r.err # <<>> THEN GenerateError(baseDir, r.err)
    ELSE [codeBlocks |-> Ptr(TypescriptTypes(r.c.structs,
                                EnumCodeBlocks(r.c.enums, r.c.enumConsts), r.c.generics)),
          err |-> <<>>]

\* generateAll() on the package of scope sc and comment lines cms
generateAll(sc, cms) ==
    Returned(VisitFrom([c |-> EmptyCollections, err |-> <<>>], sc, SortedNames(sc), 1,
                       IgnoredTypesOf(cms)))

-----------------------------------------------------------------------------
(* Properties of the document and of the classification pass *)

Done == pc \in {"returned", "printed"}
Succeeded == Done /\ result.err = <<>>

\* The names declared by the blocks of a document, in the order of the blocks.
RECURSIVE DeclaredNames(_)
DeclaredNames(text) ==
    IF Len(text) < 2 THEN <<>>
    ELSE IF Head(text) \in {"export interface ", "export type "}
        THEN <<text[2]>> \o DeclaredNames(Tail(text))
    ELSE DeclaredNames(Tail(text))

Ascending(names, from, to) ==
    \A i, j \in from..to : i < j => BytesLess(Bytes(names[i]), Bytes(names[j]))

RECURSIVE Flatten(_)
Flatten(texts) == IF texts = <<>> THEN <<>> ELSE Head(texts) \o Flatten(Tail(texts))

\* C1: the printed document lists the blocks of Types, then those of Enums,
\* then those of Generics, each block once and whole, and within each of the
\* three the names of the blocks are strictly ascending in byte order.
C1_BucketsInOrderAndSorted ==
    pc = "printed" =>
        LET t == result.codeBlocks[1]
            names == DeclaredNames(doc)
            a == Cardinality(DOMAIN t.Types)
            b == Cardinality(DOMAIN t.Enums)
            c == Cardinality(DOMAIN t.Generics)
            blockOf(i) == IF i <= a THEN t.Types[names[i]]
                          ELSE IF i <= a + b THEN t.Enums[names[i]]
                          ELSE t.Generics[names[i]]
        IN  /\ Len(names) = a + b + c
            /\ {names[i] : i \in 1..a} = DOMAIN t.Types
            /\ {names[i] : i \in (a + 1)..(a + b)} = DOMAIN t.Enums
            /\ {names[i] : i \in (a + b + 1)..(a + b + c)} = DOMAIN t.Generics
            /\ Ascending(names, 1, a)
            /\ Ascending(names, a + 1, a + b)
            /\ Ascending(names, a + b + 1, a + b + c)
            /\ doc = TrimRightNewlines(
                        Banner \o Flatten([i \in 1..Len(names) |-> blockOf(i) \o <<"\n">>]))

\* A document of two record blocks and an enum block has been printed.
C1_Witness ==
    /\ pc = "printed"
    /\ Cardinality(DOMAIN result.codeBlocks[1].Types) >= 2
    /\ Cardinality(DOMAIN result.codeBlocks[1].Enums
                    \cup DOMAIN result.codeBlocks[1].Generics) >= 1

\* C2: in whatever order the declarations were visited, the collections
\* returned are those of the visit in the order of the sorted names, and so
\* is the document printed, in whatever order the maps were ranged over.
C2_OrderIndependent ==
    Done =>
        /\ result.codeBlocks = generateAll(scope, comments).codeBlocks
        /\ pc = "printed" =>
            doc = String(result.codeBlocks[1],
                         SeqOf({<<k>> : k \in DOMAIN result.codeBlocks[1].Types}),
                         SeqOf({<<k>> : k \in DOMAIN result.codeBlocks[1].Enums}),
                         SeqOf({<<k>> : k \in DOMAIN result.codeBlocks[1].Generics}))

\* A run has printed its document after visiting two constants of an enum
\* before the enum's base type, the later-named constant first.
C2_Witness ==
    /\ pc = "printed"
    /\ "Color" \in DOMAIN enumConsts
    /\ "Color" \in DOMAIN enums
    /\ Len(enumConsts["Color"]) >= 2
    /\ enumConsts["Color"][1].name = "ColorRed"
    /\ enumConsts["Color"][2].name = "ColorBlue"

\* The identifiers the directives of the package list.
Listed == UNION {comments[i].listed : i \in 1..Len(comments)}

\* C3: no identifier listed in a directive keys a block of a collection, at
\* any time and in what is returned; and once a declaration has been
\* visited all comment lines are scanned and the ignore set is the set of the
\* listed identifiers (so it does not change during the pass).
C3_IgnoreComplete ==
    /\ \A n \in Listed : n \notin DOMAIN structs \cup DOMAIN enums \cup DOMAIN generics
    /\ Succeeded =>
        \A n \in Listed : n \notin DOMAIN result.codeBlocks[1].Types
                                    \cup DOMAIN result.codeBlocks[1].Enums
                                    \cup DOMAIN result.codeBlocks[1].Generics
    /\ visited # {} =>
        /\ ci = Len(comments)
        /\ ignoredTypes = {<<n>> : n \in Listed}

\* A run has returned collections after visiting a listed declaration, a
\* record or an enum base or a map or an interface, while another
\* declaration is rendered.
C3_Witness ==
    /\ Succeeded
    /\ \E n \in Listed \cap {"Foo", "Color", "StringMap", "Custom"} : n \in Names(scope)
    /\ DOMAIN result.codeBlocks[1].Types \cup DOMAIN result.codeBlocks[1].Enums
            \cup DOMAIN result.codeBlocks[1].Generics # {}


\* The constants accumulated for the enum base n.
Accumulated(n) == IF n \in DOMAIN enumConsts THEN enumConsts[n] ELSE <<>>

\* The orders of k things.
Bijections(k) == {p \in [1..k -> 1..k] : \A i, j \in 1..k : i # j => p[i] # p[j]}

\* The quoted values of the constants consts, in the order p.
Literals(consts, p) == [i \in 1..Len(consts) |-> <<"\"", consts[p[i]].val, "\"">>]

\* The texts lits are ascending in byte order.
AscendingTexts(lits) ==
    \A i, j \in 1..Len(lits) : i < j => ~BytesLess(TextBytes(lits[j]), TextBytes(lits[i]))

\* C7: the block returned for every enum base is its position line and
\* "export type <name> = " followed by the quoted values of its accumulated
\* constants, each once, ascending in the byte order of the quoted form and
\* joined with " | "; blue, red and green render as "blue" | "green" | "red".
C7_EnumLiteralsSorted ==
    Succeeded =>
        \A n \in DOMAIN result.codeBlocks[1].Enums :
            /\ \E p \in Bijections(Len(Accumulated(n))) :
                /\ AscendingTexts(Literals(Accumulated(n), p))
                /\ result.codeBlocks[1].Enums[n] =
                        <<"// From ", "codersdk/", enums[n].file, "\n", "export type ", n, " = ">>
                            \o Join(Literals(Accumulated(n), p), " | ") \o <<"\n">>
            /\ {Accumulated(n)[i].val : i \in 1..Len(Accumulated(n))} = {"blue", "red", "green"}
                    /\ Len(Accumulated(n)) = 3
                => SubSeq(result.codeBlocks[1].Enums[n], 8, 18)
                    = <<"\"", "blue", "\"", " | ", "\"", "green", "\"", " | ", "\"", "red", "\"">>

\* The enum Color has been returned, its constants visited in the order
\* blue, red, green.
C7_Witness ==
    /\ Succeeded
    /\ "Color" \in DOMAIN result.codeBlocks[1].Enums
    /\ Len(Accumulated("Color")) = 3
    /\ Accumulated("Color")[1].val = "blue"
    /\ Accumulated("Color")[2].val = "red"
    /\ Accumulated("Color")[3].val = "green"


\* The names that key a block of the collections returned.
Emitted ==
    DOMAIN result.codeBlocks[1].Types \cup DOMAIN result.codeBlocks[1].Enums
        \cup DOMAIN result.codeBlocks[1].Generics

\* type ID []byte is declared and not ignored.
DeclaresID ==
    /\ \E o \in scope : o.name = "ID" /\ o.kind = "TypeName" /\ o.type.under = Slice(Basic("byte"))
    /\ "ID" \notin Listed

\* C8 as stated: a run on a package that declares type ID []byte returns the
\* block "export type ID = string" for it.
C8_SequenceDeclarationRendered ==
    (Succeeded /\ DeclaresID) =>
        \E m \in {result.codeBlocks[1].Types, result.codeBlocks[1].Enums,
                  result.codeBlocks[1].Generics} :
            /\ "ID" \in DOMAIN m
            /\ \E i \in 1..Len(m["ID"]) :
                SubSeq(m["ID"], i, i + 3) = <<"export type ", "ID", " = ", "string">>

\* C8 amended: a declaration whose underlying type is a sequence of bytes is
\* skipped: visiting it adds no block to any collection and returns no error,
\* and no block of the collections returned is keyed by its name.
C8_SequenceDeclarationSkipped ==
    DeclaresID =>
        /\ "ID" \notin DOMAIN structs \cup DOMAIN enums \cup DOMAIN generics
        /\ Succeeded => "ID" \notin Emitted
        /\ (visited = {"ID"} /\ Cardinality(scope) > 1) =>
                pc = "generateAll" /\ result.err = <<>>
        /\ (Done /\ Names(scope) = {"ID"}) => Succeeded /\ Emitted = {}

\* A run on a package that declares ID and a record has returned the record.
C8_Witness ==
    /\ Succeeded
    /\ DeclaresID
    /\ "ID" \in visited
    /\ Emitted # {}

\* C10 as stated: when a declaration of an unsupported shape (type Ch chan
\* int) ends the pass, nothing is returned but an error, and the error names
\* the declaration and its shape.
C10_ClassificationFailureNamesDeclaration ==
    (Done /\ result.err # <<>> /\ "Bad" \notin visited) =>
        /\ result.codeBlocks = Nil
        /\ \E i \in 1..Len(result.err) : result.err[i] = "Ch"
        /\ \E i \in 1..Len(result.err) : SubSeq(result.err, i, i + 1) = <<"chan ", "int">>


-----------------------------------------------------------------------------
(* Properties of buildStruct *)

\* The field that line j of the block renders, and whether the line has the
\* optional marker.
LineField(j) == st.fields[state.fieldOf[j]]
LineOptional(j) == state.Fields[j][4] = "?"
Lines == 1..Len(state.Fields)

\* The external named types that are nullable.
Nullable(ty) ==
    /\ ty.k = "Named"
    /\ <<ty.path, ty.name>> \in {<<"database/sql", "NullTime">>,
                                 <<codersdkPath, "NullTime">>,
                                 <<"github.com/google/uuid", "NullUUID">>}

OmitEmptyAnywhere(f) ==
    f.Tag.json.has /\ \E i \in 1..Len(f.Tag.json.Options) : f.Tag.json.Options[i] = "omitempty"

OmitEmptyFirst(f) ==
    f.Tag.json.has /\ f.Tag.json.Options # <<>> /\ f.Tag.json.Options[1] = "omitempty"

NotNull(f) ==
    /\ f.Tag.typescript.has
    /\ f.Tag.typescript.Options # <<>>
    /\ f.Tag.typescript.Options[1] = "notnull"

NamesType(f) == f.Tag.typescript.has /\ f.Tag.typescript.Name # ""

\* C4, for the rendered fields that have no typescript tag: a pointer field
\* is optional, and a non-pointer field is optional iff its json tag has
\* omitempty among its options (at any position) or its type is nullable.
C4_OptionalityAsStated ==
    \A j \in Lines :
        LineField(j).Tag.typescript = NoTag =>
            /\ LineField(j).Type.k = "Pointer" => LineOptional(j)
            /\ LineField(j).Type.k # "Pointer" =>
                (LineOptional(j) <=> (OmitEmptyAnywhere(LineField(j)) \/ Nullable(LineField(j).Type)))

\* C5 as stated: a rendered field whose typescript tag has the option notnull
\* has no optional marker.
C5_NotNullAsStated ==
    \A j \in Lines : NotNull(LineField(j)) => ~LineOptional(j)

\* C5 amended: a rendered field whose typescript tag has the option notnull
\* has no optional marker, whatever its type (pointer, nullable), when its
\* json tag has no omitempty; it keeps the marker when omitempty is the
\* first option of its json tag.
C5_NotNullUnlessOmitEmpty ==
    \A j \in Lines :
        NotNull(LineField(j)) =>
            /\ ~OmitEmptyAnywhere(LineField(j)) => ~LineOptional(j)
            /\ OmitEmptyFirst(LineField(j)) => LineOptional(j)

\* A nullable field or a pointer field with notnull and without omitempty
\* has been rendered without the marker.
C5_Witness ==
    /\ pc = "returned"
    /\ \E j \in Lines :
        /\ NotNull(LineField(j))
        /\ ~OmitEmptyAnywhere(LineField(j))
        /\ LineField(j).Type.k = "Pointer" \/ Nullable(LineField(j).Type)
        /\ ~LineOptional(j)

\* The field is embedded, has no tag and is of a record type declared in the
\* package of the struct (or a pointer to one).
EmbedsLocalRecord(f) ==
    LET ty == IF f.Type.k = "Pointer" THEN f.Type.elem ELSE f.Type
    IN  /\ f.Embedded
        /\ f.Tag = NoTags
        /\ ty.k = "Named"
        /\ ty.path = PkgPath(pkgName)
        /\ ty.under.k = "Struct"

\* C6 as stated: once the embedded fields are found, a field is held as a
\* base type and named in the extends list iff it is an untagged embedded
\* field of a record type of the same package; such a field has no line.
C6_EmbeddingAsStated ==
    pc \in {"fields", "returned"} =>
        \A i \in 1..Len(st.fields) :
            /\ EmbedsLocalRecord(st.fields[i]) <=> i \in state.extendedFields
            /\ EmbedsLocalRecord(st.fields[i]) =>
                /\ \E k \in 1..Len(state.Extends) : state.Extends[k] = st.fields[i].Name
                /\ \A j \in Lines : state.fieldOf[j] # i

\* The lines of the fields of type T whose typescript tag names no type.
GenericLines ==
    {j \in Lines : LineField(j).Type.k = "TypeParam" /\ ~NamesType(LineField(j))}

JsonNameOf(f) == IF f.Tag.json.has /\ f.Tag.json.Name # "" THEN f.Tag.json.Name ELSE f.Name

\* The text follows "export interface Rec" in the block.
FollowsName(text) ==
    \E i \in 1..Len(block.text) :
        /\ SubSeq(block.text, i, i + 1) = <<"export interface ", "Rec">>
        /\ SubSeq(block.text, i + 2, i + 1 + Len(text)) = text

\* C9 as stated: the block of a struct with fields of type T, T constrained
\* by an interface embedding string | int, has the one generic parameter
\* "T extends string | number", and each such field has the line
\* "readonly <name>: T".
C9_GenericAsStated ==
    (pc = "returned" /\ block.err = <<>> /\ GenericLines # {}) =>
        /\ state.Generics = << <<"T", " extends ", "string", " | ", "number">> >>
        /\ FollowsName(<<"<", "T", " extends ", "string", " | ", "number", ">">>)
        /\ \A j \in GenericLines :
            state.Fields[j] = <<indent, "readonly ", JsonNameOf(LineField(j)),
                                IF OmitEmptyFirst(LineField(j)) THEN "?" ELSE "", ": ", "T">>

\* The constraint Custom as the generic parameter names it.
ConstraintName ==
    IF pkgName = "codersdk" THEN <<"Custom">> ELSE <<"example.com/other", ".", "Custom">>

\* C9 amended: the block has the one generic parameter "T extends Custom",
\* the constraint named by its identifier (by its qualified name when the
\* package's path is not github.com/coder/coder/codersdk), listed once for
\* any number of fields of type T, and each such field has the line
\* "readonly <name>: T" (<name>? when the json tag's first option is
\* omitempty); a block with no such field has no generic parameter.
C9_GenericNamesConstraint ==
    (pc = "returned" /\ block.err = <<>>) =>
        IF GenericLines = {} THEN state.Generics = <<>>
        ELSE /\ state.Generics = << <<"T", " extends ">> \o ConstraintName >>
             /\ FollowsName(<<"<", "T", " extends ">> \o ConstraintName \o <<">">>)
             /\ \A j \in GenericLines :
                    state.Fields[j] = <<indent, "readonly ", JsonNameOf(LineField(j)),
                                        IF OmitEmptyFirst(LineField(j)) THEN "?" ELSE "",
                                        ": ", "T">>

\* A struct of two fields of type T has been rendered.
C9_Witness ==
    /\ pc = "returned"
    /\ block.err = <<>>
    /\ Cardinality(GenericLines) = 2
    /\ Len(state.Generics) = 1



-----------------------------------------------------------------------------
(* Claims about typescriptType (SpecType) *)

Mapped == pc = "returned" /\ retTs # Nil

IsByte(ty) == ty.k = "Basic" /\ IsByteKind(ty.name)

\* C11: typescriptType called with the single-byte primitive returns the
\* numeric expression, not optional, with a non-empty annotation: the byte
\* case of the dispatch is reached.
C11_ByteCaseReached ==
    (Mapped /\ IsByte(argTy[1])) =>
        /\ retTs[1].err = <<>>
        /\ retTs[1].ValueType = <<"number">>
        /\ ~retTs[1].Optional
        /\ retTs[1].AboveTypeLine # <<>>


\* The lines of an annotation: the text between its "\n" fragments.
RECURSIVE AnnotationLines(_)
AnnotationLines(text) ==
    IF text = <<>> THEN <<>>
    ELSE IF \E i \in 1..Len(text) : text[i] = "\n"
        THEN LET i == CHOOSE k \in 1..Len(text) :
                        text[k] = "\n" /\ \A h \in 1..(k - 1) : text[h] # "\n"
             IN  <<SubSeq(text, 1, i - 1)>>
                    \o AnnotationLines(SubSeq(text, i + 1, Len(text)))
    ELSE <<text>>

NoLineTwice(lines) ==
    \A i, j \in 1..Len(lines) : lines[i] = lines[j] => i = j

\* The types a composite type is made of, as typescriptType descends.
Constituents(ty, names) ==
    CASE ty.k = "Map" -> {ty.key, ty.elem}
      [] ty.k \in {"Slice", "Array"} ->
            IF TypeString(ty.elem) = <<"byte">> THEN {} ELSE {ty.elem}
      [] ty.k = "Pointer" -> {ty.elem}
      [] ty.k = "Named" ->
            IF WellKnown(ty).err = <<>> \/ ty.name \in names \/ ty.under.k = "Struct"
                THEN {}
            ELSE {ty.under}
      [] OTHER -> {}

\* Every line of the annotations of the types of S is a line of lines.
NoneDropped(lines, S, names) ==
    \A part \in S :
        \A l \in 1..Len(AnnotationLines(typescriptType(part, names).AboveTypeLine)) :
            \E k \in 1..Len(lines) :
                lines[k] = AnnotationLines(typescriptType(part, names).AboveTypeLine)[l]

\* C12: the annotation typescriptType returns for a composite type (map,
\* sequence, pointer, named type of another package) has every annotation
\* line of its constituents, and no line twice.
C12_AnnotationsNotDuplicatedNorDropped ==
    (Mapped /\ retTs[1].err = <<>>) =>
        /\ Constituents(argTy[1], Names(scope)) # {} =>
                NoLineTwice(AnnotationLines(retTs[1].AboveTypeLine))
        /\ NoneDropped(AnnotationLines(retTs[1].AboveTypeLine),
                       Constituents(argTy[1], Names(scope)), Names(scope))


-----------------------------------------------------------------------------
(* Claims about the enum members and the references (Spec) *)

\* The values whose quoted forms an enum block joins with " | ".
BlockValues(b) == {b[i] : i \in {k \in 9..Len(b) : (k - 9) % 4 = 0}}

\* obj is a constant, not ignored, whose type is the named type n of the
\* scanned package.
OwnConstOf(obj, n) ==
    /\ obj.kind = "Const"
    /\ obj.name \notin ignoredTypes
    /\ obj.type.k = "Named"
    /\ obj.type.path = PkgPath(pkgName)
    /\ obj.type.name = n

\* C13: every literal of the enum block returned for N is the value of a
\* constant, not ignored, whose type is the package's own named type N.
C13_LiteralsOfOwnType ==
    Succeeded =>
        \A n \in DOMAIN result.codeBlocks[1].Enums :
            \A v \in BlockValues(result.codeBlocks[1].Enums[n]) :
                \E obj \in scope : OwnConstOf(obj, n) /\ obj.val = v


\* The named types typescriptType(ty) renders as the bare identifier: those
\* it meets, descending ty, whose name the scope declares.
RECURSIVE BareRefs(_, _)
BareRefs(ty, names) ==
    CASE ty.k = "Map" -> BareRefs(ty.key, names) \cup BareRefs(ty.elem, names)
      [] ty.k \in {"Slice", "Array"} ->
            IF TypeString(ty.elem) = <<"byte">> THEN {} ELSE BareRefs(ty.elem, names)
      [] ty.k = "Pointer" -> BareRefs(ty.elem, names)
      [] ty.k = "Named" ->
            IF WellKnown(ty).err = <<>> THEN {}
            ELSE IF ty.name \in names THEN {ty}
            ELSE IF ty.under.k = "Struct" THEN {}
            ELSE BareRefs(ty.under, names)
      [] OTHER -> {}

\* The fields of a record that buildStruct hands to typescriptType.
MappedFields(fields) ==
    {i \in 1..Len(fields) :
        /\ ~IsExtended(fields[i])
        /\ ~(fields[i].Tag.json.has /\ fields[i].Tag.json.Name = "-")}

\* The named types rendered as bare identifiers in the block of obj.
RefsOf(obj, names) ==
    CASE obj.type.under.k = "Struct" ->
            UNION {BareRefs(obj.type.under.fields[i].Type, names) :
                        i \in MappedFields(obj.type.under.fields)}
      [] obj.type.under.k = "Map" -> BareRefs(obj.type.under, names)
      [] OTHER -> {}

\* obj is a type declaration the run rendered as a record or a map.
Rendered(obj) ==
    /\ obj.kind = "TypeName"
    /\ obj.name \in DOMAIN result.codeBlocks[1].Types

\* C14: in a successful run, every named type rendered as a bare identifier
\* keys a block of one of the three collections returned, and is the type of
\* a declaration of the scanned package.
C14_ReferencesClosed ==
    Succeeded =>
        \A obj \in scope :
            Rendered(obj) =>
                \A ref \in RefsOf(obj, Names(scope)) :
                    /\ ref.name \in Emitted
                    /\ \E o \in scope : o.kind = "TypeName" /\ o.type = ref

=============================================================================
